---- MODULE Spec2Model ----
(***************************************************************************)
(* Streaming CPT extractor (mrf-extractor).                                *)
(*                                                                         *)
(* Two builds of the same main() are modelled, selected by cfg.variant:    *)
(*   "ext" : fast_bcbs_extract.go      (getWriter inside the NPI loop,     *)
(*           dec.Skip, header-write errors panic)                          *)
(*   "r2"  : fast_bcbs_extract_r2.go   (getWriter before the provider-group*)
(*           loop, skipValue/expectDelim/expectString helpers, header-write*)
(*           errors discarded, R2 upload after the extraction)             *)
(*                                                                         *)
(* Text is a sequence of one-character strings, so that trimming,          *)
(* upper-casing, prefix tests and field splitting are computed.            *)
(* The JSON document is a sequence of tokens as json.Decoder.Token yields  *)
(* them; an element of the in_network array is one token naming an entry   *)
(* of the item catalogue (what dec.Decode materialises), or "BAD" for an   *)
(* element whose decode returns an error.                                  *)
(***************************************************************************)
EXTENDS Integers, Sequences, FiniteSets, TLC

(* ------------------------------ bounds --------------------------------- *)

\* longest in_network array fed to the element loop
MaxElems == 2

\* deepest nesting of a root value that the navigator has to skip
MaxNest == 2

(* ------------------------------- text ---------------------------------- *)

Range(s) == { s[i] : i \in 1..Len(s) }

\* unicode.IsSpace, restricted to the characters that occur
IsSpace(c) == c \in {" ", "\t", "\n"}

RECURSIVE TrimLeft(_)
TrimLeft(s) ==
    IF s = <<>> THEN s
    ELSE IF IsSpace(Head(s)) THEN TrimLeft(Tail(s)) ELSE s

RECURSIVE TrimRight(_)
TrimRight(s) ==
    IF s = <<>> THEN s
    ELSE IF IsSpace(s[Len(s)]) THEN TrimRight(SubSeq(s, 1, Len(s) - 1)) ELSE s

\* strings.TrimSpace
TrimSpace(s) == TrimRight(TrimLeft(s))

UpperChar(c) ==
    CASE c = "c" -> "C"
      [] c = "p" -> "P"
      [] c = "t" -> "T"
      [] c = "h" -> "H"
      [] c = "s" -> "S"
      [] c = "x" -> "X"
      [] OTHER   -> c

\* strings.ToUpper
ToUpper(s) == [ i \in 1..Len(s) |-> UpperChar(s[i]) ]

\* strings.HasPrefix
HasPrefix(s, p) == Len(s) >= Len(p) /\ SubSeq(s, 1, Len(p)) = p

\* the delimiter predicate handed to strings.FieldsFunc for -codes
IsCodeDelim(c) == c \in {",", " ", "\t"}

RECURSIVE FieldsFrom(_, _, _)
FieldsFrom(s, i, cur) ==
    IF i > Len(s)
    THEN (IF cur = <<>> THEN <<>> ELSE <<cur>>)
    ELSE IF IsCodeDelim(s[i])
         THEN (IF cur = <<>> THEN <<>> ELSE <<cur>>) \o FieldsFrom(s, i + 1, <<>>)
         ELSE FieldsFrom(s, i + 1, Append(cur, s[i]))

\* strings.FieldsFunc(codeStr, isDelim)
FieldsFunc(s) == FieldsFrom(s, 1, <<>>)

\* the allow-list built from -codes
ParseAllowed(codeStr) ==
    { t \in { TrimSpace(f) : f \in Range(FieldsFunc(codeStr)) } : t # <<>> }

(* --------------------------- item catalogue ---------------------------- *)

C27130 == <<"2", "7", "1", "3", "0">>
C99213 == <<"9", "9", "2", "1", "3">>
C12345 == <<"1", "2", "3", "4", "5">>

\* a JSON scalar as decoded into `any` under dec.UseNumber()
Num(s) == [ t |-> "number", s |-> s ]
Str(s) == [ t |-> "string", s |-> s ]
Null   == [ t |-> "nil",    s |-> "" ]

\* the "npi" field of a provider group as decoded into `any`
NpiNull      == [ kind |-> "null",   vals |-> << >> ]
NpiArray(v)  == [ kind |-> "array",  vals |-> v ]
NpiScalar(x) == [ kind |-> "scalar", vals |-> <<x>> ]

PG(npi) == [ npi |-> npi ]

RateOf(pgs, nrefs, prices) == [ pgs |-> pgs, refs |-> nrefs, prices |-> prices ]

ItemOf(bct, bc, rates) == [ bct |-> bct, bc |-> bc, rates |-> rates ]

One111 == PG(NpiArray(<<Num("111")>>))

\* decoded in_network elements, by the token that stands for them
Catalogue ==
    [ A |-> ItemOf(<<"C", "P", "T", "4">>, C27130,
              << RateOf(<< One111, PG(NpiArray(<<Num("222"), Str("333")>>)) >>,
                        0, <<"p1", "p2">>) >>),
      B |-> ItemOf(<<"H", "C", "P", "C", "S">>, C27130,
              << RateOf(<< One111 >>, 1, <<"p1">>) >>),
      C |-> ItemOf(<<" ", "c", "p", "t", "\t">>, <<" ">> \o C27130 \o <<" ">>,
              << RateOf(<< >>, 3, << >>) >>),
      D |-> ItemOf(<<"C", "P", "T">>, C99213,
              << RateOf(<< PG(NpiNull), PG(NpiScalar(Num("555"))),
                           PG(NpiArray(<<Null>>)) >>,
                        1, <<"p1">>) >>),
      E |-> ItemOf(<<"C", "P", "T">>, C99213,
              << RateOf(<< PG(NpiArray(<< >>)) >>, 0, <<"p1">>),
                 RateOf(<< One111 >>, 1, << >>) >>),
      N |-> ItemOf(<<"C", "P", "T", "4">>, C12345,
              << RateOf(<< One111 >>, 1, <<"p1">>) >>),
      X |-> ItemOf(<<"x", "C", "P", "T">>, C27130,
              << RateOf(<< One111 >>, 1, <<"p1">>) >>),
      Z |-> ItemOf(<<"C", "P", "T">>, <<" ", " ">>,
              << RateOf(<< One111 >>, 2, <<"p1">>) >>) ]

ItemTokens == DOMAIN Catalogue

ElemTokens == ItemTokens \cup {"BAD"}

(* ----------------------------- documents ------------------------------- *)

Opens  == {"{", "["}
Closes == {"}", "]"}
Delims == Opens \cup Closes

\* tokens Token() returns as a Go string
IsStringTok(t) == t \in {"in_network", "k", "str"}

\* syntactically valid JSON values nested at most d deep, as token sequences
RECURSIVE Values(_)
Values(d) ==
    IF d = 0 THEN { <<"num">>, <<"in_network">> }
    ELSE LET V == Values(d - 1) IN
         V \cup { <<"[", "]">> }
           \cup { <<"[">> \o v \o <<"]">> : v \in V }
           \cup { <<"[">> \o v \o <<"num", "]">> : v \in V }
           \cup { <<"{", "in_network">> \o v \o <<"}">> : v \in V }
           \cup { <<"{", "k", "num", "in_network">> \o v \o <<"}">> : v \in V }

\* every sequence over S of length at most n
RECURSIVE SeqsUpTo(_, _)
SeqsUpTo(S, n) ==
    IF n = 0 THEN { <<>> }
    ELSE LET P == SeqsUpTo(S, n - 1) IN
         P \cup { Append(s, x) : s \in { q \in P : Len(q) = n - 1 }, x \in S }


(* ------------------------- run configurations -------------------------- *)

GoodCodes == C27130 \o <<",", " ">> \o C99213

\* values of -codes
CodeStrs ==
    { << >>, <<",", " ", "\t">>, <<"\n">>, <<",">> \o C27130 \o <<",", ",">>,
      GoodCodes }

ScenarioDoc == <<"{", "in_network", "[", "A", "]", "}">>

Config(variant, inPath, codeStr, usePigz, envOK, toks) ==
    [ variant |-> variant, inPath |-> inPath, codeStr |-> codeStr,
      usePigz |-> usePigz, envOK |-> envOK, toks |-> toks ]

Variants == {"ext", "r2"}

\* every flag combination, over one document
ConfigRuns ==
    { Config(v, ip, cs, pz, ev, ScenarioDoc) :
        v \in Variants, ip \in {"", "bad", "ok"}, cs \in CodeStrs,
        pz \in BOOLEAN, ev \in BOOLEAN }

RootTails ==
    { <<"in_network", "[", "A", "]", "}">>,
      <<"k", "str", "in_network", "[", "C", "]", "}">>,
      <<"in_network", "num", "}">>,
      <<"}">> }

RootDocs ==
    { <<"{", "k">> \o v \o t : v \in Values(MaxNest), t \in RootTails }
    \cup { << >>, <<"num">>, <<"[", "A", "]">>, <<"{">>, <<"{", "}">>,
           <<"{", "num", "num", "}">>, <<"{", "[", "]", "}">>,
           <<"{", "in_network">>, <<"{", "in_network", "{", "}", "}">>,
           <<"{", "in_network", "str", "}">>,
           <<"{", "k">>, <<"{", "k", "[", "num">>,
           <<"{", "k", "{", "in_network", "[">> }

\* good flags, documents that exercise the root scan
RootRuns ==
    { Config(v, "ok", GoodCodes, FALSE, TRUE, d) : v \in Variants, d \in RootDocs }

ItemDocs ==
    { <<"{", "in_network", "[">> \o es \o t :
        es \in SeqsUpTo(ElemTokens, MaxElems), t \in { <<"]", "}">>, << >> } }

\* good flags, documents that exercise the element loop
ItemRuns ==
    { Config(v, "ok", GoodCodes, FALSE, TRUE, d) : v \in Variants, d \in ItemDocs }

(* ------------------------------- state --------------------------------- *)

VARIABLES
    cfg,        \* flags, environment and the input document of this run
    pc,         \* where main() is
    why,        \* reason of the exit or panic, "" while running
    allowed,    \* the allow-list map
    dirMade,    \* <out>/csv exists
    unres,      \* unresolved_provider_references.csv and its writer
    deferred,   \* the deferred flush/close of unresW is registered
    files,      \* in_network_<code>.csv files created, by code
    writers,    \* keys of the writers map
    pos,        \* index of the next token of the decoder
    depth,      \* skipValue's depth counter
    skipFrom,   \* index of the first token of the value being skipped
    zeroHits,   \* times depth reached zero during the current skip
    seenItems, keptItems, outRows, refIDs,
    cur,        \* bc, bct and ordinal of the kept item being flattened
    todo,       \* writes of the flattening loops still to run for cur
    broken,     \* kinds of file operation that fail from now on
    ioErrs,     \* I/O calls that have returned an error
    arrayAt,    \* index of the first element token when the loop was entered
    decoded     \* element tokens decoded so far, in order

ctrs == <<seenItems, keptItems, outRows, refIDs>>
sink == <<dirMade, unres, deferred, files, writers>>
scan == <<pos, depth, skipFrom, zeroHits, arrayAt>>
work == <<cur, todo, decoded>>
envv == <<cfg, allowed, broken>>

vars == <<cfg, pc, why, allowed, dirMade, unres, deferred, files, writers, pos,
          depth, skipFrom, zeroHits, seenItems, keptItems, outRows, refIDs,
          cur, todo, broken, ioErrs, arrayAt, decoded>>

NoTable == [ recs |-> << >>, creates |-> 0, open |-> FALSE, flushed |-> TRUE ]

NoItem == [ e |-> 0, bc |-> << >>, bct |-> << >> ]

Rec(kind, code, val, src) == [ kind |-> kind, code |-> code, val |-> val, src |-> src ]

\* the 12-column header of a per-code table
Header == Rec("header12", << >>, "npi", << >>)

\* the 2-column header of the unresolved-reference table
UnresHeader == Rec("header2", << >>, "billing_code", << >>)

InitWith(runs) ==
    /\ cfg \in runs
    /\ pc = "start" /\ why = ""
    /\ allowed = {}
    /\ dirMade = FALSE /\ unres = NoTable /\ deferred = FALSE
    /\ files = << >> /\ writers = {}
    /\ pos = 1 /\ depth = 0 /\ skipFrom = 0 /\ zeroHits = 0
    /\ seenItems = 0 /\ keptItems = 0 /\ outRows = 0 /\ refIDs = 0
    /\ cur = NoItem /\ todo = << >>
    /\ broken = {} /\ ioErrs = 0
    /\ arrayAt = 0 /\ decoded = << >>

Init == InitWith(ConfigRuns \cup RootRuns \cup ItemRuns)

\* the decompressed byte stream handed to json.NewDecoder
Stream == IF cfg.inPath = "ok" THEN cfg.toks ELSE << >>

\* what dec.Token() returns next
NextTok == IF pos > Len(Stream) THEN "EOF" ELSE Stream[pos]

\* dec.More()
More == pos <= Len(Stream) /\ Stream[pos] \notin Closes

(* ----------------------------- exits ----------------------------------- *)

\* unresW.Flush(); unresF.Close()
FlushClose(t, brk) ==
    [ t EXCEPT !.flushed = (t.flushed \/ "write" \notin brk), !.open = FALSE ]

\* the deferred function of main, run while a panic unwinds
Unwound(u, dfr, brk) == IF dfr THEN FlushClose(u, brk) ELSE u

\* panic(reason) with unres as it stands at the panic
Fatal(reason, u, dfr) ==
    /\ pc' = "panicked"
    /\ why' = reason
    /\ unres' = Unwound(u, dfr, broken)

(* --------------------------- configuration ----------------------------- *)

\* flag.Parse, the usage checks and the allow-list
ParseFlags ==
    /\ pc = "start"
    /\ IF cfg.inPath = "" \/ cfg.codeStr = << >>
       THEN pc' = "exit2" /\ why' = "usage" /\ allowed' = allowed
       ELSE IF cfg.variant = "r2" /\ ~cfg.envOK
       THEN pc' = "exit2" /\ why' = "env" /\ allowed' = allowed
       ELSE IF ParseAllowed(cfg.codeStr) = {}
       THEN pc' = "exit2" /\ why' = "nocodes" /\ allowed' = {}
       ELSE pc' = "mkdir" /\ why' = "" /\ allowed' = ParseAllowed(cfg.codeStr)
    /\ UNCHANGED <<cfg, broken, ioErrs, sink, scan, ctrs, work>>

\* os.MkdirAll(csvDir)
MkOutDir ==
    /\ pc = "mkdir"
    /\ IF "create" \in broken
       THEN Fatal("mkdir", unres, deferred) /\ ioErrs' = ioErrs + 1
            /\ dirMade' = dirMade
       ELSE pc' = "mkunres" /\ dirMade' = TRUE
            /\ UNCHANGED <<why, unres, ioErrs>>
    /\ UNCHANGED <<envv, deferred, files, writers, scan, ctrs, work>>

\* the build panics when the header of unresolved_provider_references.csv
\* cannot be written ("ext") or discards the error ("r2")
HeaderErrFatal(variant) == variant = "ext"

\* os.Create(unresPath), the header, and the deferred flush/close
CreateUnres ==
    /\ pc = "mkunres"
    /\ IF "create" \in broken
       THEN Fatal("create", unres, deferred) /\ ioErrs' = ioErrs + 1
            /\ deferred' = deferred
       ELSE LET made == [ recs |-> << >>, creates |-> unres.creates + 1,
                          open |-> TRUE, flushed |-> TRUE ]
                wrote == [ made EXCEPT !.recs = <<UnresHeader>>, !.flushed = FALSE ]
            IN IF "write" \in broken
               THEN /\ ioErrs' = ioErrs + 1
                    /\ IF HeaderErrFatal(cfg.variant)
                       THEN Fatal("write", made, FALSE) /\ deferred' = FALSE
                       ELSE pc' = "open" /\ why' = why /\ unres' = made
                            /\ deferred' = TRUE
               ELSE /\ pc' = "open" /\ why' = why /\ unres' = wrote
                    /\ deferred' = TRUE /\ ioErrs' = ioErrs
    /\ UNCHANGED <<envv, dirMade, files, writers, scan, ctrs, work>>

\* pigz -dc is started, or os.Open and gzip.NewReader
OpenInput ==
    /\ pc = "open"
    /\ IF ~cfg.usePigz /\ cfg.inPath # "ok"
       THEN Fatal("open", unres, deferred)
       ELSE pc' = "root" /\ UNCHANGED <<why, unres>>
    /\ UNCHANGED <<envv, ioErrs, dirMade, deferred, files, writers, scan, ctrs, work>>


(* --------------------------- root navigator ---------------------------- *)

\* the first token must open the root object
RootOpen ==
    /\ pc = "root"
    /\ IF NextTok = "EOF"
       THEN Fatal("token", unres, deferred) /\ pos' = pos
       ELSE IF NextTok # "{"
       THEN Fatal("root", unres, deferred) /\ pos' = pos + 1
       ELSE pc' = "keys" /\ pos' = pos + 1 /\ UNCHANGED <<why, unres>>
    /\ UNCHANGED <<envv, ioErrs, dirMade, deferred, files, writers,
                   depth, skipFrom, zeroHits, arrayAt, ctrs, work>>

\* the comparison widened to every key that is followed by an array
IsTarget_AnyKey(key) == key \in {"in_network", "k"}

\* the comparison of a root key with the target field name
IsTarget(key) == key = "in_network"

\* one turn of the key loop: a key, then the '[' of the target or a skip
RootKey ==
    /\ pc = "keys"
    /\ IF ~More
       THEN Fatal("notfound", unres, deferred) /\ UNCHANGED <<pos, skipFrom, arrayAt>>
       ELSE IF ~IsStringTok(NextTok)
       THEN Fatal("key", unres, deferred) /\ pos' = pos + 1
            /\ UNCHANGED <<skipFrom, arrayAt>>
       ELSE IF IsTarget(NextTok)
       THEN /\ skipFrom' = skipFrom
            /\ IF pos + 1 > Len(Stream)
               THEN Fatal("token", unres, deferred) /\ pos' = pos + 1
                    /\ arrayAt' = arrayAt
               ELSE IF Stream[pos + 1] # "["
               THEN Fatal("notarray", unres, deferred) /\ pos' = pos + 2
                    /\ arrayAt' = arrayAt
               ELSE pc' = "items" /\ pos' = pos + 2 /\ arrayAt' = pos + 2
                    /\ UNCHANGED <<why, unres>>
       ELSE pc' = "skip" /\ pos' = pos + 1 /\ skipFrom' = pos + 1
            /\ arrayAt' = arrayAt
            /\ UNCHANGED <<why, unres>>
    /\ UNCHANGED <<envv, ioErrs, dirMade, deferred, files, writers,
                   depth, zeroHits, ctrs, work>>

\* the decoder's own scan to the end of the value that starts at p:
\* the index after the value, 0 when the stream ends first
RECURSIVE ScanTo(_, _, _)
ScanTo(toks, p, d) ==
    IF p > Len(toks) THEN 0
    ELSE LET nd == IF toks[p] \in Opens THEN d + 1
                   ELSE IF toks[p] \in Closes THEN d - 1 ELSE d
         IN IF nd <= 0 THEN p + 1 ELSE ScanTo(toks, p + 1, nd)

\* dec.Skip() of the "ext" build
DecSkip ==
    /\ pc = "skip" /\ cfg.variant = "ext"
    /\ IF ScanTo(Stream, pos, 0) = 0
       THEN Fatal("skip", unres, deferred) /\ pos' = Len(Stream) + 1
       ELSE pc' = "keys" /\ pos' = ScanTo(Stream, pos, 0) /\ UNCHANGED <<why, unres>>
    /\ UNCHANGED <<envv, ioErrs, dirMade, deferred, files, writers,
                   depth, skipFrom, zeroHits, arrayAt, ctrs, work>>

\* tok.(json.Delim) of skipValue's first token
IsDelim(tok) == tok \in Delims

\* skipValue: the first token of the value
SkipValueStart ==
    /\ pc = "skip" /\ cfg.variant = "r2"
    /\ zeroHits' = 0
    /\ IF NextTok = "EOF"
       THEN Fatal("skip", unres, deferred) /\ UNCHANGED <<pos, depth>>
       ELSE /\ pos' = pos + 1
            /\ UNCHANGED <<why, unres>>
            /\ IF IsDelim(NextTok)
               THEN pc' = "skiploop" /\ depth' = 1
               ELSE pc' = "keys" /\ depth' = depth
    /\ UNCHANGED <<envv, ioErrs, dirMade, deferred, files, writers,
                   skipFrom, arrayAt, ctrs, work>>

\* the switch with the array delimiters left out
DepthAfter_BracesOnly(d, tok) ==
    IF tok = "{" THEN d + 1
    ELSE IF tok = "}" THEN d - 1
    ELSE d

\* the switch on a nested delimiter inside skipValue's loop
DepthAfter(d, tok) ==
    IF tok \in Opens THEN d + 1
    ELSE IF tok \in Closes THEN d - 1
    ELSE d

\* skipValue: one turn of `for depth > 0`
SkipValueLoop ==
    /\ pc = "skiploop"
    /\ IF NextTok = "EOF"
       THEN Fatal("skip", unres, deferred) /\ UNCHANGED <<pos, depth, zeroHits>>
       ELSE /\ pos' = pos + 1
            /\ depth' = DepthAfter(depth, NextTok)
            /\ zeroHits' = zeroHits + (IF depth' = 0 THEN 1 ELSE 0)
            /\ pc' = IF depth' > 0 THEN "skiploop" ELSE "keys"
            /\ UNCHANGED <<why, unres>>
    /\ UNCHANGED <<envv, ioErrs, dirMade, deferred, files, writers,
                   skipFrom, arrayAt, ctrs, work>>


(* ------------------------ filter and flattener ------------------------- *)

\* anyToString
anyToString(v) ==
    CASE v.t = "nil"    -> ""
      [] v.t = "string" -> v.s
      [] v.t = "number" -> v.s
      [] OTHER          -> v.s

\* normalizeNPIs with a bare scalar dropped instead of coerced
normalizeNPIs_DropScalar(v) ==
    IF v.kind = "array"
    THEN [ i \in 1..Len(v.vals) |-> anyToString(v.vals[i]) ]
    ELSE << >>

\* normalizeNPIs
normalizeNPIs(v) ==
    CASE v.kind = "null"  -> << >>
      [] v.kind = "array" -> [ i \in 1..Len(v.vals) |-> anyToString(v.vals[i]) ]
      [] OTHER            -> << anyToString(v.vals[1]) >>

\* Kept without the billing_code_type test
Kept_AnyType(it, allow) == TrimSpace(it.bc) # << >> /\ TrimSpace(it.bc) \in allow

\* the three `continue`s that reject an element
Kept(it, allow) ==
    LET bct == ToUpper(TrimSpace(it.bct))
        bc  == TrimSpace(it.bc)
    IN  /\ HasPrefix(bct, <<"C", "P", "T">>)
        /\ bc # << >>
        /\ bc \in allow

\* the writes of consecutive loop turns, one after the other
RECURSIVE Concat(_)
Concat(ss) == IF ss = << >> THEN << >> ELSE Head(ss) \o Concat(Tail(ss))

Op(kind, r, g, p, n, npi) ==
    [ op |-> kind, r |-> r, g |-> g, p |-> p, n |-> n, npi |-> npi ]

\* getWriter is called once per Rate Group before its provider groups ("r2")
\* or before each row ("ext")
OpensEarly(variant) == variant = "r2"

\* PGOps with the two inner loops exchanged: for npis { for prices { row } }
PGOps_NpiOuter(rate, r, g) ==
    LET npis == normalizeNPIs(rate.pgs[g].npi)
        NpiOps(n) == [ p \in 1..Len(rate.prices) |-> Op("row", r, g, p, n, npis[n]) ]
    IN  IF Len(rate.prices) = 0 THEN << >>
        ELSE Concat([ n \in 1..Len(npis) |-> NpiOps(n) ])

\* for _, pg := range rate.ProviderGroups { for prices { for npis { row } } }
PGOps(rate, r, g) ==
    LET npis == normalizeNPIs(rate.pgs[g].npi)
        PriceOps(p) == [ n \in 1..Len(npis) |-> Op("row", r, g, p, n, npis[n]) ]
    IN  IF Len(npis) = 0 THEN << >>
        ELSE Concat([ p \in 1..Len(rate.prices) |-> PriceOps(p) ])

\* RateOps with the references logged only for a Rate Group that yields no rows
RateOps_RefsOrRows(variant, rate, r) ==
    LET refs == [ k \in 1..rate.refs |-> Op("unres", r, 0, 0, k, "") ]
        Groups(g) == PGOps(rate, r, g)
    IN  IF Len(rate.pgs) = 0 \/ Len(rate.prices) = 0 THEN refs
        ELSE (IF OpensEarly(variant) THEN << Op("open", r, 0, 0, 0, "") >> ELSE << >>)
             \o Concat([ g \in 1..Len(rate.pgs) |-> Groups(g) ])

\* the body of `for _, rate := range it.NegotiatedRates`, as the writes it makes
RateOps(variant, rate, r) ==
    LET refs == [ k \in 1..rate.refs |-> Op("unres", r, 0, 0, k, "") ]
        Groups(g) == PGOps(rate, r, g)
    IN  IF Len(rate.pgs) = 0 \/ Len(rate.prices) = 0 THEN refs
        ELSE refs \o (IF OpensEarly(variant) THEN << Op("open", r, 0, 0, 0, "") >>
                      ELSE << >>)
                  \o Concat([ g \in 1..Len(rate.pgs) |-> Groups(g) ])

\* the writes of one kept item, in loop order
Flatten(variant, it) ==
    LET Rates(r) == RateOps(variant, it.rates[r], r)
    IN  Concat([ r \in 1..Len(it.rates) |-> Rates(r) ])


(* ------------------------------ row sink ------------------------------- *)

Put(f, k, v) == [ x \in (DOMAIN f) \cup {k} |-> IF x = k THEN v ELSE f[x] ]

\* csv.Writer.Write on an open table; the error is returned to the caller
WriteRec(t, rec, brk) ==
    IF "write" \in brk THEN t
    ELSE [ t EXCEPT !.recs = Append(@, rec), !.flushed = FALSE ]

\* getWriter without its cache test
Cached_Never(ws, code) == FALSE

\* the cache test at the top of getWriter
Cached(ws, code) == code \in ws

\* getWriter(code): files and writers after the call, the panic it raised
\* ("" when it returned) and the number of I/O errors it met
GetWriter(fs, ws, code, brk, fatalHdr) ==
    IF Cached(ws, code)
    THEN [ files |-> fs, writers |-> ws, err |-> "", nerr |-> 0 ]
    ELSE IF "create" \in brk
    THEN [ files |-> fs, writers |-> ws, err |-> "create", nerr |-> 1 ]
    ELSE LET old  == IF code \in DOMAIN fs THEN fs[code].creates ELSE 0
             made == [ recs |-> << >>, creates |-> old + 1,
                       open |-> TRUE, flushed |-> TRUE ]
         IN  IF "write" \in brk
             THEN IF fatalHdr
                  THEN [ files |-> Put(fs, code, made), writers |-> ws,
                         err |-> "write", nerr |-> 1 ]
                  ELSE [ files |-> Put(fs, code, made), writers |-> ws \cup {code},
                         err |-> "", nerr |-> 1 ]
             ELSE [ files |-> Put(fs, code, WriteRec(made, Header, brk)),
                    writers |-> ws \cup {code}, err |-> "", nerr |-> 0 ]

(* ----------------------------- element loop ---------------------------- *)

\* an Item none of whose fields was set
ZeroItem == ItemOf(<< >>, << >>, << >>)

\* dec.Decode whose error is dropped: the element is skipped and the loop goes on
Decode_ErrorDropped(tok) ==
    [ err |-> FALSE, it |-> IF tok \in ItemTokens THEN Catalogue[tok] ELSE ZeroItem ]

\* dec.Decode(&it): the error it returns and the Item it leaves in `it`
Decode(tok) ==
    IF tok \in ItemTokens
    THEN [ err |-> FALSE, it |-> Catalogue[tok] ]
    ELSE [ err |-> TRUE,  it |-> ZeroItem ]

\* one element: decode, count, filter; a kept item queues its writes
DecodeElem ==
    /\ pc = "items" /\ More
    /\ pos' = pos + 1
    /\ IF Decode(NextTok).err
       THEN Fatal("decode", unres, deferred)
            /\ UNCHANGED <<seenItems, keptItems, cur, todo, decoded>>
       ELSE LET it == Decode(NextTok).it IN
            /\ seenItems' = seenItems + 1
            /\ decoded' = Append(decoded, NextTok)
            /\ UNCHANGED <<why, unres>>
            /\ IF Kept(it, allowed)
               THEN /\ keptItems' = keptItems + 1
                    /\ cur' = [ e |-> seenItems + 1, bc |-> TrimSpace(it.bc),
                                bct |-> ToUpper(TrimSpace(it.bct)) ]
                    /\ todo' = Flatten(cfg.variant, it)
                    /\ pc' = IF todo' = << >> THEN "items" ELSE "emit"
               ELSE /\ pc' = "items"
                    /\ UNCHANGED <<keptItems, cur, todo>>
    /\ UNCHANGED <<envv, ioErrs, dirMade, deferred, files, writers,
                   depth, skipFrom, zeroHits, arrayAt, outRows, refIDs>>

\* the next write of the flattening loops
Emit ==
    /\ pc = "emit"
    /\ LET op  == Head(todo)
           bad == IF "write" \in broken THEN 1 ELSE 0
           nxt == IF Len(todo) = 1 THEN "items" ELSE "emit"
           gw  == IF op.op = "open" \/ ~OpensEarly(cfg.variant)
                  THEN GetWriter(files, writers, cur.bc, broken,
                                 HeaderErrFatal(cfg.variant))
                  ELSE [ files |-> files, writers |-> writers, err |-> "", nerr |-> 0 ]
       IN IF op.op = "unres"
          THEN /\ unres' = WriteRec(unres,
                              Rec("unres", cur.bc, "ref_id", <<cur.e, op.r, op.n>>),
                              broken)
               /\ ioErrs' = ioErrs + bad
               /\ refIDs' = refIDs + 1
               /\ todo' = Tail(todo) /\ pc' = nxt
               /\ UNCHANGED <<why, files, writers, outRows>>
          ELSE IF gw.err # ""
          THEN /\ Fatal(gw.err, unres, deferred)
               /\ files' = gw.files /\ writers' = gw.writers
               /\ ioErrs' = ioErrs + gw.nerr
               /\ UNCHANGED <<todo, outRows, refIDs>>
          ELSE IF op.op = "open"
          THEN /\ files' = gw.files /\ writers' = gw.writers
               /\ ioErrs' = ioErrs + gw.nerr
               /\ todo' = Tail(todo) /\ pc' = nxt
               /\ UNCHANGED <<why, unres, outRows, refIDs>>
          ELSE /\ files' = [ gw.files EXCEPT ![cur.bc] =
                               WriteRec(@, Rec("row", cur.bc, op.npi,
                                               <<cur.e, op.r, op.g, op.p, op.n>>),
                                        broken) ]
               /\ writers' = gw.writers
               /\ ioErrs' = ioErrs + gw.nerr + bad
               /\ outRows' = outRows + 1
               /\ todo' = Tail(todo) /\ pc' = nxt
               /\ UNCHANGED <<why, unres, refIDs>>
    /\ UNCHANGED <<envv, dirMade, deferred, scan, seenItems, keptItems, cur, decoded>>

\* the check made on the token that ends the element loop: expectDelim(dec,
\* ']') in "r2", none in "ext"
ClosesArray(variant, tok) == variant = "ext" \/ tok = "]"

\* the table handles released when the loop has ended normally
Released(fs, ws, brk) ==
    [ c \in DOMAIN fs |-> IF c \in ws THEN FlushClose(fs[c], brk) ELSE fs[c] ]

\* the token after the last element, then flush/close of every writer
Finish ==
    /\ pc = "items" /\ ~More
    /\ IF NextTok = "EOF"
       THEN Fatal("token", unres, deferred) /\ UNCHANGED <<pos, files>>
       ELSE IF ~ClosesArray(cfg.variant, NextTok)
       THEN Fatal("delim", unres, deferred) /\ pos' = pos + 1 /\ files' = files
       ELSE /\ pos' = pos + 1
            /\ files' = Released(files, writers, broken)
            /\ unres' = FlushClose(unres, broken)
            /\ pc' = IF cfg.variant = "r2" THEN "upload" ELSE "done"
            /\ why' = why
    /\ UNCHANGED <<envv, ioErrs, dirMade, deferred, writers,
                   depth, skipFrom, zeroHits, arrayAt, ctrs, work>>

\* the R2 upload of the finished files, then the summary ("r2")
Upload ==
    /\ pc = "upload"
    /\ pc' = "done"
    /\ UNCHANGED <<envv, why, ioErrs, sink, scan, ctrs, work>>

(* ------------------------------- faults -------------------------------- *)

Running == pc \notin {"exit2", "panicked", "done"}

\* the output volume starts refusing a kind of operation
IOFault ==
    /\ Running
    /\ \E k \in {"create", "write"} :
          /\ k \notin broken
          /\ broken' = broken \cup {k}
    /\ UNCHANGED <<cfg, allowed, pc, why, ioErrs, sink, scan, ctrs, work>>

(* ---------------------------- specifications --------------------------- *)

Next ==
    \/ ParseFlags
    \/ MkOutDir
    \/ CreateUnres
    \/ OpenInput
    \/ RootOpen
    \/ RootKey
    \/ DecSkip
    \/ SkipValueStart
    \/ SkipValueLoop
    \/ DecodeElem
    \/ Emit
    \/ Finish
    \/ Upload

\* the run on a healthy output volume
Spec == Init /\ [][Next]_vars

FaultRuns ==
    { Config(v, "ok", GoodCodes, FALSE, TRUE, d) :
        v \in Variants,
        d \in { <<"{", "k", "[", "num", "]", "in_network", "[">> \o es \o <<"]", "}">> :
                  es \in SeqsUpTo({"A", "C", "D", "BAD"}, MaxElems) } }

InitIO == InitWith(FaultRuns)

NextIO == Next \/ IOFault

\* the run on an output volume that may start failing at any point
SpecIO == InitIO /\ [][NextIO]_vars


(* ============================== claims ================================= *)

\* data records of the per-code tables, as <<code, index>>
RowSlots ==
    { <<c, i>> \in UNION { {c} \X (1..Len(files[c].recs)) : c \in DOMAIN files } :
        files[c].recs[i].kind = "row" }

\* data records of the unresolved-reference table, by index
UnresSlots == { i \in 1..Len(unres.recs) : unres.recs[i].kind = "unres" }

\* output rows whose source is Rate Group r of element e
RowsOf(e, r) ==
    { sl \in RowSlots : LET src == files[sl[1]].recs[sl[2]].src
                        IN  src[1] = e /\ src[2] = r }

\* unresolved-reference records whose source is Rate Group r of element e
UnresOf(e, r) ==
    { i \in UnresSlots : unres.recs[i].src[1] = e /\ unres.recs[i].src[2] = r }

\* s, leading white space aside, starts with "CPT" in any letter case
TypeIsCPT(s) ==
    \E i \in 1..Len(s) :
        /\ \A j \in 1..(i - 1) : s[j] \in {" ", "\t", "\n"}
        /\ i + 2 <= Len(s)
        /\ s[i] \in {"c", "C"} /\ s[i + 1] \in {"p", "P"} /\ s[i + 2] \in {"t", "T"}

\* s without its surrounding white space is a non-empty member of allow
CodeIsAllowed(s, allow) ==
    \E i \in 1..Len(s) : \E j \in i..Len(s) :
        /\ s[i] \notin {" ", "\t", "\n"} /\ s[j] \notin {" ", "\t", "\n"}
        /\ \A k \in 1..Len(s) : (k < i \/ k > j) => s[k] \in {" ", "\t", "\n"}
        /\ SubSeq(s, i, j) \in allow

\* the filter as the data model states it
Passes(it) == TypeIsCPT(it.bct) /\ CodeIsAllowed(it.bc, allowed)

\* the element decoded e-th
ItemNo(e) == Catalogue[decoded[e]]

\* C1: only an element whose billing_code_type, trimmed and upper-cased,
\* starts with "CPT" and whose trimmed billing_code is a non-empty member of
\* the allow-set has output rows or unresolved-reference records; every other
\* decoded element has none of either and moves only the scanned counter
\* (the kept counter counts exactly the elements that pass).
C1_FilterCorrectness ==
    /\ seenItems = Len(decoded)
    /\ keptItems = Cardinality({ e \in 1..Len(decoded) : Passes(ItemNo(e)) })
    /\ \A sl \in RowSlots :
          LET e == files[sl[1]].recs[sl[2]].src[1]
          IN  e \in 1..Len(decoded) /\ Passes(ItemNo(e))
    /\ \A i \in UnresSlots :
          LET e == unres.recs[i].src[1]
          IN  e \in 1..Len(decoded) /\ Passes(ItemNo(e))
    /\ outRows = Cardinality(RowSlots)
    /\ refIDs = Cardinality(UnresSlots)
    /\ (pc = "emit" => cur.e = Len(decoded) /\ Passes(ItemNo(cur.e)))

\* a run in which a rejected element carrying provider references followed a
\* kept one, and ended with only the kept element's rows
C1_Witness ==
    /\ pc = "done"
    /\ decoded = <<"A", "B">>
    /\ seenItems = 2 /\ keptItems = 1
    /\ outRows = 6 /\ refIDs = 0

\* Rate Group r of element e has run through the flattening loops
Flattened(e, r) ==
    pc = "emit" => (e < cur.e \/ \A i \in 1..Len(todo) : todo[i].r > r)

\* identifiers the "npi" field of a provider group stands for
NpiCount(f) ==
    IF f.kind = "null" THEN 0 ELSE IF f.kind = "array" THEN Len(f.vals) ELSE 1

RECURSIVE SumNpis(_, _)
SumNpis(pgs, n) == IF n = 0 THEN 0 ELSE SumNpis(pgs, n - 1) + NpiCount(pgs[n].npi)

\* C2: a Rate Group of a kept item with M prices emits M times the sum of the
\* NPI counts of its provider groups; groups with a null or empty NPI field
\* add nothing, and a Rate Group without provider groups or prices emits none.
C2_CrossProduct ==
    \A e \in 1..Len(decoded) :
        Passes(ItemNo(e)) =>
            \A r \in 1..Len(ItemNo(e).rates) :
                Flattened(e, r) =>
                    LET rate == ItemNo(e).rates[r]
                    IN  Cardinality(RowsOf(e, r))
                          = Len(rate.prices) * SumNpis(rate.pgs, Len(rate.pgs))

\* Scenario A run to the end (6 rows), then an item whose first provider
\* group has a null NPI field and whose others still produced rows
C2_Witness ==
    /\ pc = "done"
    /\ decoded = <<"A", "D">>
    /\ Cardinality(RowsOf(1, 1)) = 6
    /\ Cardinality(RowsOf(2, 1)) = 2

\* C3: a Rate Group of a kept item has exactly as many unresolved-reference
\* records as provider references, with or without output rows, each the pair
\* (trimmed billing code of the item, placeholder).
C3_ReferenceIndependence ==
    \A e \in 1..Len(decoded) :
        Passes(ItemNo(e)) =>
            \A r \in 1..Len(ItemNo(e).rates) :
                Flattened(e, r) =>
                    /\ Cardinality(UnresOf(e, r)) = ItemNo(e).rates[r].refs
                    /\ \A i \in UnresOf(e, r) :
                          /\ unres.recs[i].val = "ref_id"
                          /\ CodeIsAllowed(ItemNo(e).bc, {unres.recs[i].code})

\* Scenario C (3 references, no provider groups, no rows) and a Rate Group
\* that has both a reference and rows
C3_Witness ==
    /\ pc = "done"
    /\ decoded = <<"C", "D">>
    /\ Cardinality(UnresOf(1, 1)) = 3 /\ RowsOf(1, 1) = {}
    /\ Cardinality(UnresOf(2, 1)) = 1 /\ RowsOf(2, 1) # {}


\* C4: when the run has ended, normally or by a panic, every table that was
\* created (each per-code table and the unresolved-reference table) has been
\* flushed and closed.
C4_ReleasedOnEveryExit ==
    ~Running =>
        /\ unres.creates > 0 => (~unres.open /\ unres.flushed)
        /\ \A c \in DOMAIN files : ~files[c].open /\ files[c].flushed

HeaderCount(recs) ==
    Cardinality({ i \in 1..Len(recs) : recs[i].kind \in {"header12", "header2"} })

\* C5: every table that exists holds its header exactly once, as its first
\* record, with zero or many data rows after it, and has been created
\* (truncated) exactly once.
C5_HeaderOnce ==
    /\ \A c \in DOMAIN files :
          /\ files[c].creates = 1
          /\ Len(files[c].recs) >= 1
          /\ files[c].recs[1] = Header
          /\ HeaderCount(files[c].recs) = 1
    /\ unres.creates <= 1
    /\ unres.creates = 1 =>
          /\ Len(unres.recs) >= 1
          /\ unres.recs[1] = UnresHeader
          /\ HeaderCount(unres.recs) = 1

\* a per-code table written by two different elements, beside an unresolved
\* table that holds its header and nothing else
C5_Witness ==
    /\ pc = "done"
    /\ \E c \in DOMAIN files :
          /\ \E i \in 1..Len(files[c].recs) :
                files[c].recs[i].kind = "row" /\ files[c].recs[i].src[1] = 1
          /\ \E i \in 1..Len(files[c].recs) :
                files[c].recs[i].kind = "row" /\ files[c].recs[i].src[1] = 2
    /\ unres.recs = <<UnresHeader>>

\* the JSON grammar: the index after the value that starts at p, 0 when no
\* well-formed value starts there
RECURSIVE ParseValue(_, _), ParseElems(_, _), ParseMembers(_, _)
ParseValue(toks, p) ==
    IF p > Len(toks) THEN 0
    ELSE IF toks[p] = "[" THEN ParseElems(toks, p + 1)
    ELSE IF toks[p] = "{" THEN ParseMembers(toks, p + 1)
    ELSE IF toks[p] \in Closes THEN 0
    ELSE p + 1

ParseElems(toks, p) ==
    IF p > Len(toks) THEN 0
    ELSE IF toks[p] = "]" THEN p + 1
    ELSE LET q == ParseValue(toks, p) IN IF q = 0 THEN 0 ELSE ParseElems(toks, q)

ParseMembers(toks, p) ==
    IF p > Len(toks) THEN 0
    ELSE IF toks[p] = "}" THEN p + 1
    ELSE IF ~IsStringTok(toks[p]) THEN 0
    ELSE LET q == ParseValue(toks, p + 1) IN IF q = 0 THEN 0 ELSE ParseMembers(toks, q)

\* a skip has been started on a well-formed value
SkipsValid == skipFrom # 0 /\ ParseValue(Stream, skipFrom) # 0

\* the tokens of the value after skipFrom and before i balance
Balanced(i) ==
    Cardinality({ j \in skipFrom..(i - 1) : Stream[j] \in Opens })
      = Cardinality({ j \in skipFrom..(i - 1) : Stream[j] \in Closes })

\* C6: a skip started at the first token of a well-formed value never fails
\* and ends with the decoder at the token after that value; skipValue's depth
\* counter is never negative, is positive while it loops, and reaches zero
\* once, at the token that closes the value.
C6_SkipCorrectness ==
    /\ depth >= 0
    /\ pc = "skiploop" => depth > 0 /\ zeroHits = 0
    /\ SkipsValid =>
          /\ why # "skip"
          /\ pc \in {"skip", "skiploop"} => pos < ParseValue(Stream, skipFrom)
          /\ pc = "keys" => pos = ParseValue(Stream, skipFrom)
          /\ (pc = "keys" /\ cfg.variant = "r2" /\ Stream[skipFrom] \in Opens) =>
                /\ depth = 0 /\ zeroHits = 1
                /\ Stream[pos - 1] \in Closes
                /\ Balanced(pos)

\* skipValue has returned from an object nested two deep that holds a key
\* named like the target
C6_Witness ==
    /\ pc = "keys" /\ cfg.variant = "r2"
    /\ skipFrom # 0 /\ pos - skipFrom >= 7
    /\ Stream[skipFrom] = "{" /\ Stream[skipFrom + 1] = "in_network"
    /\ Stream[skipFrom + 2] = "{"
    /\ zeroHits = 1

\* the index of the first element of the array held by the root's immediate
\* key "in_network", 0 when the root has no such key before it ends, breaks
\* off, or holds a non-string key or a non-array value for it
RECURSIVE RootMembers(_, _)
RootMembers(toks, p) ==
    IF p > Len(toks) \/ ~IsStringTok(toks[p]) THEN 0
    ELSE IF toks[p] = "in_network"
         THEN (IF p + 1 <= Len(toks) /\ toks[p + 1] = "[" THEN p + 2 ELSE 0)
    ELSE LET q == ParseValue(toks, p + 1) IN IF q = 0 THEN 0 ELSE RootMembers(toks, q)

TargetArray(toks) ==
    IF toks # << >> /\ toks[1] = "{" THEN RootMembers(toks, 2) ELSE 0

\* the input has been read as far as the root scan goes
PastRoot == pc \in {"items", "emit", "upload", "done", "panicked"}
            /\ why \notin {"mkdir", "create", "write", "open"}

\* C7: the element loop is entered only at the array of the root's immediate
\* key "in_network"; when the root is not an object, a key is not a string,
\* the value of in_network is not an array or the keys end without it, the
\* run panics with nothing scanned and no row or unresolved record written.
C7_RootNavigation ==
    /\ arrayAt # 0 => arrayAt = TargetArray(Stream)
    /\ (pc \in {"items", "emit", "upload", "done"} \/ seenItems > 0) => arrayAt # 0
    /\ (PastRoot /\ TargetArray(Stream) # 0) => arrayAt # 0
    /\ (PastRoot /\ TargetArray(Stream) = 0) =>
          /\ pc = "panicked"
          /\ why \in {"token", "root", "key", "notarray", "notfound", "skip"}
          /\ arrayAt = 0 /\ decoded = << >>
          /\ seenItems = 0 /\ keptItems = 0 /\ outRows = 0 /\ refIDs = 0
          /\ files = << >> /\ writers = {}
          /\ unres.recs = <<UnresHeader>>

\* the keys ran out although a skipped value held a key "in_network" with an
\* array
C7_Witness ==
    /\ pc = "panicked" /\ why = "notfound"
    /\ \E i \in 1..(Len(Stream) - 1) :
          Stream[i] = "in_network" /\ Stream[i + 1] = "[" /\ i > 2
    /\ seenItems = 0

\* the k-th element token of the array the loop runs over
ElemAt(k) == Stream[arrayAt + k - 1]

\* k is the first element of the array whose decode fails
FirstBad(k) ==
    /\ arrayAt # 0
    /\ arrayAt + k - 1 <= Len(Stream)
    /\ ElemAt(k) = "BAD"
    /\ \A j \in 1..(k - 1) : ElemAt(j) \in ItemTokens

\* C8: when the decode of element k fails the run panics there: the counters
\* stand at the elements before k, no row or unresolved record comes from k
\* or a later element, and the run never completes.
C8_FailFast ==
    \A k \in 1..Len(Stream) :
        FirstBad(k) =>
            /\ seenItems < k /\ Len(decoded) < k
            /\ pc \notin {"upload", "done"}
            /\ \A sl \in RowSlots : files[sl[1]].recs[sl[2]].src[1] < k
            /\ \A i \in UnresSlots : unres.recs[i].src[1] < k
            /\ why = "decode" => (pc = "panicked" /\ seenItems = k - 1)
            /\ (pc = "panicked" /\ seenItems = k - 1) => why = "decode"

\* the decode of the first element failed with a kept item behind it
C8_Witness ==
    /\ why = "decode" /\ pc = "panicked"
    /\ FirstBad(1)
    /\ arrayAt + 1 <= Len(Stream) /\ ElemAt(2) = "A"
    /\ outRows = 0

\* C9: an I/O call that returned an error has ended the run in a panic.
C9_IOErrorsFatal == ioErrs > 0 => pc = "panicked"

\* no code can be parsed from s
NoCodeIn(s) == \A i \in 1..Len(s) : s[i] \in {",", " ", "\t", "\n"}

\* C10: a run whose input path is missing or cannot be opened, or whose
\* -codes list holds no code, ends with a non-zero status having created no
\* output directory or table and read no input token.
C10_NoPartialWork ==
    (~Running /\ (cfg.inPath # "ok" \/ NoCodeIn(cfg.codeStr))) =>
        /\ pc \in {"exit2", "panicked"}
        /\ ~dirMade /\ unres.creates = 0 /\ files = << >>
        /\ pos = 1


\* data rows of the per-code table of code c, by index
DataRows(c) == { i \in 1..Len(files[c].recs) : files[c].recs[i].kind = "row" }

\* C11: a per-code table is created only by the first output-row write for
\* its code and reused afterwards: each table was created once, under a
\* trimmed code of the allow-set, is the table of its handle, and holds at
\* least one data row.
C11_LazyFanOut ==
    /\ writers = DOMAIN files
    /\ \A c \in DOMAIN files :
          /\ c \in allowed
          /\ files[c].creates = 1
          /\ \A i \in DataRows(c) : files[c].recs[i].code = c
          /\ DataRows(c) # {}


\* <<element, Rate Group, Provider Group, Price, NPI>> positions a and b in
\* arrival order
ArrivesBefore(a, b) ==
    \E k \in 1..5 : a[k] < b[k] /\ \A j \in 1..(k - 1) : a[j] = b[j]

\* the n-th identifier of a provider group's "npi" field, as text
NpiAt(f, n) ==
    LET v == IF f.kind = "array" THEN f.vals[n] ELSE f.vals[1]
    IN  IF v.t = "nil" THEN "" ELSE v.s

\* positions whose row belongs in the table of code c, over the decoded elements
Due(c) ==
    UNION { UNION { UNION {
        { <<e, r, g, p, n>> :
            p \in 1..Len(ItemNo(e).rates[r].prices),
            n \in 1..NpiCount(ItemNo(e).rates[r].pgs[g].npi) } :
          g \in 1..Len(ItemNo(e).rates[r].pgs) } :
          r \in 1..Len(ItemNo(e).rates) } :
          e \in { d \in 1..Len(decoded) :
                    Passes(ItemNo(d)) /\ CodeIsAllowed(ItemNo(d).bc, {c}) } }

\* positions of the current element the loops have not reached yet
NotYet ==
    IF pc = "emit"
    THEN { <<cur.e, todo[i].r, todo[i].g, todo[i].p, todo[i].n>> :
             i \in { k \in 1..Len(todo) : todo[k].op = "row" } }
    ELSE {}

\* the rows of table c are the due positions reached so far, in arrival
\* order, each carrying the identifier of its position
InArrivalOrder(c) ==
    LET recs == files[c].recs
    IN  /\ \A i \in DataRows(c) : \A j \in DataRows(c) :
              i < j => ArrivesBefore(recs[i].src, recs[j].src)
        /\ { recs[i].src : i \in DataRows(c) } = Due(c) \ NotYet
        /\ \A i \in DataRows(c) :
              LET k == recs[i].src
              IN  recs[i].val = NpiAt(ItemNo(k[1]).rates[k[2]].pgs[k[3]].npi, k[5])
        /\ \A i \in DataRows(c) : \A k \in NotYet : ArrivesBefore(recs[i].src, k)

\* a step leaves every record already in a table where and as it was
AppendOnly ==
    \A c \in DOMAIN files :
        /\ c \in DOMAIN files'
        /\ Len(files'[c].recs) >= Len(files[c].recs)
        /\ SubSeq(files'[c].recs, 1, Len(files[c].recs)) = files[c].recs

====
